---- MODULE Spec2Model ----
(***************************************************************************)
(* Episode audio playback of podcast_player.py: the EpisodeDetailScreen    *)
(* (one per opened episode), the download worker of load_audio, the        *)
(* future's completion callback, and pygame.mixer.music (one shared        *)
(* engine for the whole process).                                          *)
(*                                                                         *)
(* Threads: the Textual event loop (control thread, position pc) and the   *)
(* ThreadPoolExecutor worker (position worker).  The music engine ends a   *)
(* track on its own (MusicFinished).                                       *)
(***************************************************************************)
EXTENDS Integers, Sequences, FiniteSets, TLC

\* ---- bounds -------------------------------------------------------------
MaxSessions == 2   \* episode screens opened in one run
MaxFiles == 2      \* temp files created in one run

\* ---- episodes (Episode.__init__) ----------------------------------------
\* "A" and "B" carry an enclosure URL, "N" has none (audio_url = None).
Episodes == {"A", "B", "N"}

AudioUrl(e) == IF e = "N" THEN "" ELSE e

\* load_audio without its audio_url test.
UrlMissingAlways(e) == FALSE

\* `not self.episode.audio_url` : None and "" are both falsy.
UrlMissing(e) == AudioUrl(e) = ""

\* ---- state ----------------------------------------------------------------
VARIABLES
  app,       \* "running" | "crashed" : an exception left a message handler
  sessions,  \* every EpisodeDetailScreen constructed so far, in order
  cur,       \* index in sessions of the screen on top of the stack, 0 = main
  pc,        \* control thread: "idle" | "submitted" | "shutdown"
  worker,    \* worker thread: "idle" | "running" | "callbacks"
  future,    \* the Future of the submitted download
  mixer,     \* pygame.mixer.music : [loaded, state, start]
  files,     \* temp files on disk, index = file id, never removed
  calls,     \* engine calls issued while handling the current command
  cmd,       \* history: the last command taken from the user
  pair       \* history: the screen and engine before each of the (at most
             \* two) Play/Pause presses made in a row from a playing screen

vars == <<app, sessions, cur, pc, worker, future, mixer, files, calls, cmd, pair>>

\* EpisodeDetailScreen.__init__ ; outcome, prev and fetched are history
\* fields: outcome records how the last download of this screen ended
\* ("none" | "failed" | "loaderror" | "ok"), prev the outcome before that
\* download was submitted, fetched whether one was ever submitted.
NewSession(e) ==
  [episode |-> e, is_playing |-> FALSE, is_paused |-> FALSE,
   current_time |-> 0, audio |-> 0, outcome |-> "none", prev |-> "none",
   fetched |-> FALSE]

\* owner: the screen whose bound methods were submitted and registered;
\* ranOn and runs are history: the thread that ran the callback and how
\* often it ran.
NoFuture ==
  [state |-> "none", result |-> 0, callback |-> FALSE, owner |-> 0,
   ranOn |-> "none", runs |-> 0]

Init ==
  /\ app = "running"
  /\ sessions = <<>>
  /\ cur = 0
  /\ pc = "idle"
  /\ worker = "idle"
  /\ future = NoFuture
  /\ mixer = [loaded |-> 0, state |-> "stopped", start |-> 0]
  /\ files = <<>>
  /\ calls = <<>>
  /\ cmd = "none"
  /\ pair = <<>>

\* ---- pygame.mixer.music ---------------------------------------------------
\* music.load(path): a file the decoder rejects raises and leaves the
\* previously loaded music in place; a good file replaces (and stops) it.
MusicLoadOk(f) == files[f].kind = "good"

MusicLoad(m, f) == [loaded |-> f, state |-> "stopped", start |-> 0]

\* music.play(): raises pygame.error when nothing is loaded.
MusicPlayRaises(m) == m.loaded = 0

\* music.play(start=t): (re)starts the loaded music at offset t.
MusicPlay(m, t) == [m EXCEPT !.state = "playing", !.start = t]

MusicPause(m) == IF m.state = "playing" THEN [m EXCEPT !.state = "paused"] ELSE m

MusicUnpause(m) == IF m.state = "paused" THEN [m EXCEPT !.state = "playing"] ELSE m

\* ---- start_playing, from the is_playing test on ---------------------------
\* start_playing without its is_playing test.
PlayTailAlways(s, m, cl) ==
  IF MusicPlayRaises(m)
    THEN [s |-> s, m |-> m, cl |-> Append(cl, "play"), raised |-> TRUE]
    ELSE [s |-> [s EXCEPT !.is_playing = TRUE],
          m |-> MusicPlay(m, s.current_time),
          cl |-> Append(cl, "play"), raised |-> FALSE]

\* Result: the screen, the engine, the calls and whether play raised.
PlayTail(s, m, cl) ==
  IF s.is_playing
    THEN [s |-> s, m |-> m, cl |-> cl, raised |-> FALSE]
    ELSE IF MusicPlayRaises(m)
      THEN [s |-> s, m |-> m, cl |-> Append(cl, "play"), raised |-> TRUE]
      ELSE [s |-> [s EXCEPT !.is_playing = TRUE],
            m |-> MusicPlay(m, s.current_time),
            cl |-> Append(cl, "play"), raised |-> FALSE]

\* ---- toggle_play_pause ----------------------------------------------------
\* toggle_play_pause resuming with music.play instead of music.unpause.
TogglePlayPauseReplay(s, m) ==
  IF s.is_playing
    THEN [s |-> [s EXCEPT !.is_playing = FALSE, !.is_paused = TRUE],
          m |-> MusicPause(m), cl |-> <<"pause">>]
    ELSE IF s.is_paused
      THEN [s |-> [s EXCEPT !.is_paused = FALSE, !.is_playing = TRUE],
            m |-> IF MusicPlayRaises(m) THEN m ELSE MusicPlay(m, s.current_time),
            cl |-> <<"play">>]
      ELSE [s |-> s, m |-> m, cl |-> <<>>]

\* Result: the screen, the engine and the engine calls made.
TogglePlayPause(s, m) ==
  IF s.is_playing
    THEN [s |-> [s EXCEPT !.is_playing = FALSE, !.is_paused = TRUE],
          m |-> MusicPause(m), cl |-> <<"pause">>]
    ELSE IF s.is_paused
      THEN [s |-> [s EXCEPT !.is_paused = FALSE, !.is_playing = TRUE],
            m |-> MusicUnpause(m), cl |-> <<"unpause">>]
      ELSE [s |-> s, m |-> m, cl |-> <<>>]

\* ---- on_audio_download_complete -------------------------------------------
\* on_audio_download_complete without its start_playing call.
OnAudioDownloadCompleteNoPlay(s, m, cl, fut) ==
  IF fut.result = -1 \/ fut.result = 0
    THEN [s |-> [s EXCEPT !.outcome = "failed"], m |-> m, cl |-> cl]
    ELSE LET s1 == [s EXCEPT !.audio = fut.result]
         IN IF ~MusicLoadOk(fut.result)
              THEN [s |-> [s1 EXCEPT !.outcome = "loaderror"], m |-> m,
                    cl |-> Append(cl, "load")]
              ELSE [s |-> [s1 EXCEPT !.outcome = "ok"],
                    m |-> MusicLoad(m, fut.result), cl |-> Append(cl, "load")]

\* fut.result is 0 (None), -1 (download_audio raised) or a file id.
\* Exceptions raised inside a done-callback are logged and dropped by
\* concurrent.futures, so `raised` of the inner start_playing goes nowhere.
OnAudioDownloadComplete(s, m, cl, fut) ==
  IF fut.result = -1 \/ fut.result = 0
    THEN [s |-> [s EXCEPT !.outcome = "failed"], m |-> m, cl |-> cl]
    ELSE LET s1 == [s EXCEPT !.audio = fut.result]
         IN IF ~MusicLoadOk(fut.result)
              THEN [s |-> [s1 EXCEPT !.outcome = "loaderror"], m |-> m,
                    cl |-> Append(cl, "load")]
              ELSE LET r == PlayTail([s1 EXCEPT !.outcome = "ok"],
                                     MusicLoad(m, fut.result), Append(cl, "load"))
                   IN [s |-> r.s, m |-> r.m, cl |-> r.cl]

\* ---- start_playing, its first test ------------------------------------------
\* start_playing downloading on every Play press.
NeedsLoadAlways(s) == TRUE

\* `if not self.audio`
NeedsLoad(s) == s.audio = 0

\* ---- load_audio, leaving the with-block -----------------------------------
\* An executor shut down without waiting.
ShutdownNoWait == TRUE

\* executor.shutdown(wait=True) returns when the worker thread has ended.
ShutdownDone == worker = "idle"

\* ---- actions --------------------------------------------------------------
\* PodcastPlayer.on_list_view_selected, Episode branch.
SelectEpisode(e) ==
  /\ app = "running" /\ pc = "idle" /\ cur = 0
  /\ Len(sessions) < MaxSessions
  /\ sessions' = Append(sessions, NewSession(e))
  /\ cur' = Len(sessions) + 1
  /\ calls' = <<>>
  /\ cmd' = "select"
  /\ pair' = <<>>
  /\ UNCHANGED <<app, pc, worker, future, mixer, files>>

\* Play button: start_playing up to the return of executor.submit (no audio
\* yet), or the whole of start_playing (audio already staged).
PressPlay ==
  /\ app = "running" /\ pc = "idle" /\ cur # 0
  /\ cmd' = "play"
  /\ pair' = <<>>
  /\ LET s == sessions[cur] IN
     IF NeedsLoad(s)
       THEN IF UrlMissing(s.episode)
              THEN /\ app' = "crashed"
                   /\ calls' = <<>>
                   /\ UNCHANGED <<sessions, cur, pc, worker, future, mixer, files>>
              ELSE /\ pc' = "submitted"
                   /\ worker' = "running"
                   /\ future' = [state |-> "pending", result |-> 0,
                                 callback |-> FALSE, owner |-> cur,
                                 ranOn |-> "none", runs |-> 0]
                   /\ sessions' = [sessions EXCEPT ![cur].fetched = TRUE,
                                                   ![cur].prev = s.outcome,
                                                   ![cur].outcome = "none"]
                   /\ calls' = <<>>
                   /\ UNCHANGED <<app, cur, mixer, files>>
       ELSE LET r == PlayTail(s, mixer, <<>>) IN
            /\ sessions' = [sessions EXCEPT ![cur] = r.s]
            /\ mixer' = r.m
            /\ calls' = r.cl
            /\ app' = IF r.raised THEN "crashed" ELSE app
            /\ UNCHANGED <<cur, pc, worker, future, files>>

\* Worker: download_audio, then Future.set_result / set_exception.
\* kind "none": requests raised, None is returned, no file.
\* kind "good"/"corrupt": the file is written and its path returned.
\* kind "partial": the file was created but writing it raised (OSError),
\* the future holds the exception.
DownloadAudio(kind) ==
  /\ app = "running" /\ worker = "running"
  /\ kind # "none" => Len(files) < MaxFiles
  /\ files' = IF kind = "none" THEN files
              ELSE Append(files, [owner |-> future.owner, kind |-> kind])
  /\ future' = [future EXCEPT !.state = "finished",
                 !.result = IF kind = "none" THEN 0
                            ELSE IF kind = "partial" THEN -1
                            ELSE Len(files) + 1]
  /\ worker' = IF future.callback THEN "callbacks" ELSE "idle"
  /\ UNCHANGED <<app, sessions, cur, pc, mixer, calls, cmd, pair>>

\* Worker: Future._invoke_callbacks runs the registered callback.
WorkerCallback ==
  /\ app = "running" /\ worker = "callbacks"
  /\ LET r == OnAudioDownloadComplete(sessions[future.owner], mixer, calls, future) IN
     /\ sessions' = [sessions EXCEPT ![future.owner] = r.s]
     /\ mixer' = r.m
     /\ calls' = r.cl
  /\ future' = [future EXCEPT !.ranOn = "worker", !.runs = @ + 1]
  /\ worker' = "idle"
  /\ UNCHANGED <<app, cur, pc, files, cmd, pair>>

\* Control: future.add_done_callback ; a finished future runs the callback
\* at once in the calling thread, a pending one stores it.
AddDoneCallback ==
  /\ app = "running" /\ pc = "submitted"
  /\ pc' = "shutdown"
  /\ IF future.state = "finished"
       THEN LET r == OnAudioDownloadComplete(sessions[future.owner], mixer, calls, future) IN
            /\ sessions' = [sessions EXCEPT ![future.owner] = r.s]
            /\ mixer' = r.m
            /\ calls' = r.cl
            /\ future' = [future EXCEPT !.ranOn = "control", !.runs = @ + 1]
       ELSE /\ future' = [future EXCEPT !.callback = TRUE]
            /\ UNCHANGED <<sessions, mixer, calls>>
  /\ UNCHANGED <<app, cur, worker, files, cmd, pair>>

\* Control: the with-block's exit (executor.shutdown(wait=True)) returns
\* once the worker is through, load_audio returns, and start_playing goes
\* on with its is_playing test.
ExecutorExit ==
  /\ app = "running" /\ pc = "shutdown" /\ ShutdownDone
  /\ LET r == PlayTail(sessions[cur], mixer, calls) IN
     /\ sessions' = [sessions EXCEPT ![cur] = r.s]
     /\ mixer' = r.m
     /\ calls' = r.cl
     /\ app' = IF r.raised THEN "crashed" ELSE app
  /\ pc' = "idle"
  /\ UNCHANGED <<cur, worker, future, files, cmd, pair>>

\* Play/Pause button: toggle_play_pause.
PressPlayPause ==
  /\ app = "running" /\ pc = "idle" /\ cur # 0
  /\ LET r == TogglePlayPause(sessions[cur], mixer) IN
     /\ sessions' = [sessions EXCEPT ![cur] = r.s]
     /\ mixer' = r.m
     /\ calls' = r.cl
  /\ cmd' = "toggle"
  /\ pair' = LET snap == [s |-> sessions[cur], m |-> mixer] IN
             IF Len(pair) = 1 THEN Append(pair, snap)
             ELSE IF sessions[cur].is_playing THEN <<snap>>
             ELSE <<>>
  /\ UNCHANGED <<app, cur, pc, worker, future, files>>

\* Back button: self.app.pop_screen() and nothing else.
PressBack ==
  /\ app = "running" /\ pc = "idle" /\ cur # 0
  /\ cur' = 0
  /\ calls' = <<>>
  /\ cmd' = "back"
  /\ pair' = <<>>
  /\ UNCHANGED <<app, sessions, pc, worker, future, mixer, files>>

\* The engine reaches the end of the track; no handler is attached
\* (on_music_finished is commented out).
MusicFinished ==
  /\ app = "running" /\ mixer.state = "playing"
  /\ mixer' = [mixer EXCEPT !.state = "ended"]
  /\ UNCHANGED <<app, sessions, cur, pc, worker, future, files, calls, cmd, pair>>

Next ==
  \/ \E e \in Episodes : SelectEpisode(e)
  \/ PressPlay
  \/ \E k \in {"none", "good", "corrupt", "partial"} : DownloadAudio(k)
  \/ WorkerCallback
  \/ AddDoneCallback
  \/ ExecutorExit
  \/ PressPlayPause
  \/ PressBack
  \/ MusicFinished

Spec == Init /\ [][Next]_vars

\* ---- observation -----------------------------------------------------------
Range(q) == {q[k] : k \in 1..Len(q)}

Live == 1..Len(sessions)

\* A download of screen i was submitted and its completion callback has not
\* run yet.
InFlight(i) == i = future.owner /\ pc # "idle" /\ future.ranOn = "none"

\* The status of screen i as the fields of the screen encode it.  The code
\* never clears is_playing when a track ends, so "Finished" has no encoding.
Status(i) ==
  LET s == sessions[i] IN
  IF InFlight(i) THEN "Fetching"
  ELSE IF s.is_playing THEN "Playing"
  ELSE IF s.is_paused THEN "Paused"
  ELSE IF s.outcome \in {"failed", "loaderror"} THEN "Failed"
  ELSE IF s.audio # 0 THEN "Ready"
  ELSE "Idle"

TypeOK ==
  /\ app \in {"running", "crashed"}
  /\ cur \in 0..Len(sessions)
  /\ pc \in {"idle", "submitted", "shutdown"}
  /\ worker \in {"idle", "running", "callbacks"}
  /\ mixer.loaded \in 0..Len(files)
  /\ mixer.state \in {"stopped", "playing", "paused", "ended"}
  /\ \A i \in Live : sessions[i].audio \in 0..Len(files)

\* ---- C1 --------------------------------------------------------------------
\* C1: a screen whose episode has no audio URL stays Idle whatever is
\* pressed: is_playing and is_paused stay false, no audio is staged, no
\* download is ever submitted for it and no engine play is issued for it.
MissingReferenceStaysIdle ==
  \A i \in Live :
    AudioUrl(sessions[i].episode) = "" =>
      /\ ~sessions[i].is_playing
      /\ ~sessions[i].is_paused
      /\ sessions[i].audio = 0
      /\ ~sessions[i].fetched
      /\ Status(i) = "Idle"
      /\ i = cur => (worker = "idle" /\ pc = "idle" /\ "play" \notin Range(calls))

\* Play was pressed on an episode without URL (load_audio raised) while an
\* earlier screen had left music loaded in the engine.
MissingReferencePlayed ==
  /\ cur # 0
  /\ AudioUrl(sessions[cur].episode) = ""
  /\ app = "crashed"
  /\ mixer.loaded # 0

\* ---- C2 --------------------------------------------------------------------
\* C2: when the download of a screen's audio failed (nothing was staged),
\* the screen is Failed and not Playing: the Play command that fetched issued
\* no engine play, is_playing is not set, and once the screen is dismissed
\* it is Idle.
FailedDownloadNeverPlays ==
  \A i \in Live :
    (sessions[i].outcome = "failed" /\ sessions[i].audio = 0) =>
      /\ ~sessions[i].is_playing
      /\ i = cur => "play" \notin Range(calls)
      /\ IF i = cur THEN Status(i) = "Failed" ELSE ~sessions[i].is_paused

\* ---- C3 --------------------------------------------------------------------
\* C3: in every reachable state a screen holds staged audio exactly when its
\* status is Ready, Playing, Paused or Finished.
StagedIffStatus ==
  \A i \in Live :
    (sessions[i].audio # 0) <=>
      (Status(i) \in {"Ready", "Playing", "Paused", "Finished"})

\* ---- C4 --------------------------------------------------------------------
\* C4: the Back button pressed on a screen that is not Idle leaves that
\* screen Idle, the engine stopped and no temp file on disk.
DismissReleasesAll ==
  [][(PressBack /\ Status(cur) # "Idle") =>
       (/\ ~sessions'[cur].is_playing
        /\ ~sessions'[cur].is_paused
        /\ sessions'[cur].audio = 0
        /\ mixer'.state = "stopped"
        /\ Len(files') = 0)]_vars

\* ---- C5 --------------------------------------------------------------------
\* C5: while the worker is downloading, the control thread is back in its
\* event loop, free to take the next command.
PlayReturnsWhileFetching ==
  worker = "running" => pc = "idle"

\* ---- C7 --------------------------------------------------------------------
\* C7: a screen that is no longer on top (dismissed, or replaced by a newer
\* one) has been torn down: it is not marked playing or paused, holds no
\* staged audio, none of its temp files is left, and the engine is not
\* sounding.
EarlierSessionsTornDown ==
  \A i \in Live :
    i # cur =>
      /\ ~sessions[i].is_playing
      /\ ~sessions[i].is_paused
      /\ sessions[i].audio = 0
      /\ \A f \in 1..Len(files) : files[f].owner # i
      /\ (cur = 0 \/ sessions[cur].audio = 0) => mixer.state # "playing"

\* ---- C8 --------------------------------------------------------------------
\* C8: when the engine reaches the end of the track of the screen that is
\* Playing, that screen stops being marked playing, its staged audio is
\* dropped and no temp file is left on disk.
FinishReleasesAudio ==
  [][(/\ MusicFinished
      /\ pc = "idle"
      /\ cur # 0
      /\ sessions[cur].is_playing
      /\ sessions[cur].audio # 0
      /\ mixer.loaded = sessions[cur].audio) =>
       (/\ ~sessions'[cur].is_playing
        /\ sessions'[cur].audio = 0
        /\ Len(files') = 0)]_vars

\* ---- C9 --------------------------------------------------------------------
\* C9: a failed fetch or load never takes the application down, and a
\* Play pressed on a Failed screen whose download then succeeds ends with
\* that audio loaded, engine play issued for it and the screen Playing.
ControllerSurvivesFailure ==
  /\ \A i \in Live :
       sessions[i].outcome \in {"failed", "loaderror"} => app = "running"
  /\ (/\ cur # 0 /\ pc = "idle"
      /\ sessions[cur].prev = "failed"
      /\ sessions[cur].outcome = "ok"
      /\ "load" \in Range(calls)) =>
        (/\ mixer.loaded = sessions[cur].audio
         /\ calls = <<"load", "play">>
         /\ sessions[cur].is_playing)

\* ---- C10 -------------------------------------------------------------------
\* C10: when the engine rejects the downloaded file, the screen is Failed,
\* its staged audio is dropped and the temp file removed at once, and the
\* Play command issues no engine play.
LoadErrorReleasesAudio ==
  \A i \in Live :
    sessions[i].outcome = "loaderror" =>
      /\ sessions[i].audio = 0
      /\ \A f \in 1..Len(files) : files[f].owner # i
      /\ ~sessions[i].is_playing
      /\ i = cur => "play" \notin Range(calls)

\* ---- C11 -------------------------------------------------------------------
\* C11: the Play command pressed on an Idle screen whose download and load
\* succeed needs no second press: as soon as the callback has loaded the
\* track, engine play has been issued once, from offset current_time = 0,
\* for the file just staged, and the screen is marked playing.
AutoPlayAfterLoad ==
  \A i \in Live :
    (/\ i = cur /\ cmd = "play"
     /\ sessions[i].prev = "none"
     /\ sessions[i].outcome = "ok"
     /\ "load" \in Range(calls)) =>
      /\ calls = <<"load", "play">>
      /\ sessions[i].is_playing
      /\ ~sessions[i].is_paused
      /\ sessions[i].current_time = 0
      /\ mixer.loaded = sessions[i].audio
      /\ mixer.start = 0
      /\ mixer.state \in {"playing", "ended"}

\* The Play command is through, the worker ran the callback, the track sounds.
AutoPlayed ==
  /\ cur # 0 /\ pc = "idle" /\ cmd = "play"
  /\ sessions[cur].prev = "none"
  /\ sessions[cur].outcome = "ok"
  /\ calls = <<"load", "play">>
  /\ future.ranOn = "worker"
  /\ mixer.state = "playing"

\* ---- C12 -------------------------------------------------------------------
\* The screen is in none of Playing and Paused as the specification counts
\* them: nothing fetched yet (Idle), the last download or load failed
\* (Failed), or the engine has played the staged track to its end (Finished).
NeitherPlayingNorPaused(i) ==
  \/ sessions[i].audio = 0 /\ sessions[i].outcome = "none"
  \/ sessions[i].outcome \in {"failed", "loaderror"}
  \/ /\ sessions[i].audio # 0
     /\ mixer.loaded = sessions[i].audio
     /\ mixer.state = "ended"

\* C12: the Play/Pause button pressed on a screen that is Idle, Failed or
\* Finished issues no engine call and changes neither the screen nor the
\* engine.
ToggleNoOpOutsidePlaying ==
  [][(PressPlayPause /\ NeitherPlayingNorPaused(cur)) =>
       (calls' = <<>> /\ sessions' = sessions /\ mixer' = mixer)]_vars

\* ---- C13 -------------------------------------------------------------------
\* C13: two Play/Pause presses in a row on a playing screen leave it marked
\* playing and not paused, having passed through paused; the engine got
\* pause and then unpause and never play; current_time, audio, episode and
\* the engine's loaded track and start offset are what they were before.
DoubleToggleRestores ==
  Len(pair) = 2 =>
    LET s0 == pair[1].s
        s1 == pair[2].s
        s2 == sessions[cur]
    IN /\ s0.is_playing
       /\ ~s1.is_playing /\ s1.is_paused
       /\ s2.is_playing /\ ~s2.is_paused
       /\ pair[2].m = MusicPause(pair[1].m)
       /\ calls = <<"unpause">>
       /\ s2.current_time = s0.current_time
       /\ s2.audio = s0.audio
       /\ s2.episode = s0.episode
       /\ mixer.loaded = pair[1].m.loaded
       /\ mixer.start = pair[1].m.start
       /\ mixer.state \in {pair[1].m.state, "ended"}

\* A sounding track was paused and resumed.
DoubleToggled ==
  /\ Len(pair) = 2
  /\ cmd = "toggle"
  /\ pair[1].m.state = "playing"
  /\ pair[2].m.state = "paused"
  /\ mixer.state = "playing"
  /\ sessions[cur].audio # 0

\* ---- C14 -------------------------------------------------------------------
\* C14: no step of the worker thread changes a screen's fields or calls the
\* engine; the worker only completes the future.
WorkerLeavesSessionAlone ==
  [][((\E k \in {"none", "good", "corrupt", "partial"} : DownloadAudio(k))
        \/ WorkerCallback) =>
       (/\ \A i \in Live :
             /\ sessions'[i].audio = sessions[i].audio
             /\ sessions'[i].is_playing = sessions[i].is_playing
             /\ sessions'[i].is_paused = sessions[i].is_paused
        /\ mixer' = mixer
        /\ calls' = calls)]_vars

\* ---- C16 -------------------------------------------------------------------
\* C16: no screen is ever marked playing and paused at once.
NeverPlayingAndPaused ==
  \A i \in Live : ~(sessions[i].is_playing /\ sessions[i].is_paused)

\* ---- C17 -------------------------------------------------------------------
\* C17: the handling of one command issues engine play at most once, on
\* whichever thread the completion callback ran.
PlayIssuedAtMostOnce ==
  Cardinality({k \in 1..Len(calls) : calls[k] = "play"}) <= 1

\* A Play command that downloaded is through; the callback ran on the
\* control thread and played, the outer start_playing did not play again.
PlayedOnceAfterFetch ==
  /\ cur # 0 /\ pc = "idle" /\ cmd = "play"
  /\ future.ranOn = "control"
  /\ sessions[cur].is_playing
  /\ calls = <<"load", "play">>

\* ---- C18 -------------------------------------------------------------------
\* Temp files whose path was returned to screen i.
StagedFiles(i) ==
  {f \in 1..Len(files) : files[f].owner = i /\ files[f].kind \in {"good", "corrupt"}}

\* C18: a screen gets at most one staged temp file: a download is in flight
\* for it only while it has no audio, so once self.audio is set no Play
\* press downloads again.
OneStagedFilePerSession ==
  \A i \in Live :
    /\ Cardinality(StagedFiles(i)) <= 1
    /\ sessions[i].audio # 0 => StagedFiles(i) = {sessions[i].audio}
    /\ (i = future.owner /\ worker = "running") => sessions[i].audio = 0

\* Play was pressed on a paused screen that has its audio staged: it went
\* straight to music.play, with room left for another temp file.
PlayPressedOnStagedAudio ==
  /\ cur # 0 /\ pc = "idle" /\ cmd = "play"
  /\ sessions[cur].audio # 0
  /\ sessions[cur].is_paused
  /\ calls = <<"play">>
  /\ Len(files) < MaxFiles

====
